---- MODULE Spec2Model ----
(***************************************************************************)
(* Model of go/relay/prover.go: the LCP Prover, which wraps an origin      *)
(* prover and delegates proof verification to the remote LCP service.      *)
(*                                                                         *)
(* Go pointers, interfaces and (result, error) pairs are option values:    *)
(* the empty set is nil, a singleton set holds the value.                  *)
(***************************************************************************)
EXTENDS Integers, Sequences, FiniteSets, TLC

VARIABLES
    config,            \* Prover.config
    codec,             \* Prover.codec             ({} = nil)
    path,              \* Prover.path              ({} = nil)
    lcpServiceClient,  \* Prover.lcpServiceClient  ({} = nil)
    pc,                \* "idle", "update_loop" (inside the for loop of SetupHeadersForUpdate), "crashed" (Go panic)
    op,                \* the operation invoked last (or in progress)
    origin,            \* what the origin prover returned to that invocation
    headers,           \* SetupHeadersForUpdate: local `headers`
    idx,               \* SetupHeadersForUpdate: number of loop iterations completed
    updates,           \* SetupHeadersForUpdate: local `updates`
    calls,             \* remote requests issued by that invocation, in order, each with its response
    ret,               \* what the invocation returned: [res, err]
    verified,          \* history: the session has issued a Verify request
    entry,             \* history: the session fields when that invocation was entered
    created,           \* the LCP service: identifiers of the clients it has created, in order
    other,             \* a second Prover: its fields ({} when there is none)
    thr                \* goroutines calling into one Prover concurrently: their positions

vars == <<config, codec, path, lcpServiceClient, pc, op, origin, headers, idx, updates, calls, ret, verified,
          entry, created, other, thr>>

\* what lies outside the one sequentially used Prover
aux == <<created, other, thr>>

session == <<config, codec, path, lcpServiceClient>>

----------------------------------------------------------------------------
(* Bounds *)

MaxHeaders == 2      \* longest header sequence the origin prover returns
MaxDials == 2        \* connections one session opens in a run

----------------------------------------------------------------------------
(* Value universes of the inputs *)

Nil == {}

ElcClientIds == {"lcp-client-0", "lcp-client-1"}

Configs ==
    { [LcpServiceAddress |-> "localhost:50051",
       ElcClientId |-> id,
       Mrenclave |-> IF id = "lcp-client-0" THEN <<222, 173>> ELSE <<190, 239>>,
       AllowedQuoteStatuses |-> IF id = "lcp-client-0" THEN <<"SW_HARDENING_NEEDED">> ELSE <<>>,
       AllowedAdvisoryIds |-> IF id = "lcp-client-0" THEN <<"INTEL-SA-00219">> ELSE <<"INTEL-SA-00334">>]
      : id \in ElcClientIds }

Codecs == {"proto"}

PathEnds ==
    { [ClientID |-> "07-tendermint-0", ConnectionID |-> "connection-0",
       PortID |-> "transfer", ChannelID |-> "channel-0"],
      [ClientID |-> "07-tendermint-1", ConnectionID |-> "connection-1",
       PortID |-> "transfer", ChannelID |-> "channel-1"] }

AccAddresses == {<<>>, <<1>>}

OriginHeaders == {"H1", "H2", "notproto"}

Heights == {1, 2}
Values == {"v1", "v2"}
Proofs == {<<>>, <<7>>}
Seqs == {1, 2}

\* elc/ibc response messages (commitment, signer, signature): two whose
\* commitment is well-formed, with heights 1 and 2, and one whose commitment is not
Responses ==
    { [Commitment |-> <<1, 170>>, Signer |-> <<5>>, Signature |-> <<201>>],
      [Commitment |-> <<2, 187>>, Signer |-> <<6>>, Signature |-> <<202>>],
      [Commitment |-> <<170>>, Signer |-> <<5>>, Signature |-> <<203>>] }

\* what an RPC hands back: a response, or an error
RpcErr == [ok |-> FALSE, msg |-> Nil]
RpcOk(m) == [ok |-> TRUE, msg |-> {m}]
Msg(r) == CHOOSE m \in r.msg : TRUE

----------------------------------------------------------------------------
(* Return values *)

Return(res, err) == [res |-> res, err |-> err]
Ok(v) == Return({v}, Nil)
\* variant: an error return that also carries a value
ErrWithResult(e) == Return({e}, {e})
Err(e) == Return(Nil, {e})
NoReturn == Return(Nil, Nil)

----------------------------------------------------------------------------
(* Library functions the prover calls *)

\* codectypes.Any as built by clienttypes.PackHeader / PackClientState / PackConsensusState
PackAny(typeUrl, v) == [TypeUrl |-> typeUrl, Value |-> v]

\* clienttypes.PackHeader: fails for a header that is no proto.Message
PackHeaderOk(h) == h # "notproto"
PackHeader(h) == PackAny("/header", h)

\* sdk.AccAddress.String(): "" for the empty address, the bech32 form otherwise
AccAddressString(a) == IF a = <<>> THEN [hrp |-> "", data |-> <<>>] ELSE [hrp |-> "cosmos", data |-> a]

\* host.StoreKey
StoreKey == "ibc"

----------------------------------------------------------------------------
(* initServiceClient: grpc.Dial, then replace the handle.  The connections *)
(* of a session are numbered in the order they are opened.                 *)

NextConn == IF lcpServiceClient = Nil THEN 1 ELSE (CHOOSE c \in lcpServiceClient : TRUE).conn + 1

CanDial == NextConn <= MaxDials

NewLCPServiceClient(conn, cdc) == [conn |-> conn, codec |-> cdc]

\* variant: a failed dial drops the handle the Prover had
initServiceClientClearsOnFailure(dialOk) ==
    IF dialOk THEN {NewLCPServiceClient(NextConn, codec)} ELSE Nil

\* variant: the service client is built without the codec
initServiceClientNoCodec(dialOk) ==
    IF dialOk THEN {NewLCPServiceClient(NextConn, Nil)} ELSE lcpServiceClient

\* the handle after initServiceClient, given whether grpc.Dial succeeded
initServiceClient(dialOk) ==
    IF dialOk THEN {NewLCPServiceClient(NextConn, codec)} ELSE lcpServiceClient

----------------------------------------------------------------------------
(* Bookkeeping shared by the actions that run a whole handler in one step  *)

IsVerify(req) == req.method \notin {"CreateClient", "UpdateClient"}

\* the fields of the Prover
Fields == [config |-> config, codec |-> codec, path |-> path, lcpServiceClient |-> lcpServiceClient]

Finish(name, org, cs, r) ==
    /\ pc' = "idle"
    /\ entry' = Fields
    /\ verified' = (verified \/ \E i \in 1..Len(cs) : IsVerify(cs[i].req))
    /\ op' = name
    /\ origin' = org
    /\ calls' = cs
    /\ ret' = r
    /\ headers' = <<>>
    /\ idx' = 0
    /\ updates' = <<>>

\* a Go panic (nil pointer dereference): the invocation never returns
Crash(name, org) ==
    /\ pc' = "crashed"
    /\ entry' = Fields
    /\ verified' = verified
    /\ op' = name
    /\ origin' = org
    /\ calls' = <<>>
    /\ ret' = NoReturn
    /\ headers' = <<>>
    /\ idx' = 0
    /\ updates' = <<>>

Call(req, resp) == [req |-> req, resp |-> resp]

----------------------------------------------------------------------------
(* Session setup *)

Threads == {1, 2}

\* a goroutine that has not called into the Prover
NoCall == [op |-> "none", pc |-> "idle", conn |-> Nil, used |-> Nil]

\* NewProver
NewProver ==
    /\ config \in Configs
    /\ codec = Nil
    /\ path = Nil
    /\ lcpServiceClient = Nil
    /\ pc = "idle"
    /\ op = "NewProver"
    /\ origin = Nil
    /\ headers = <<>>
    /\ idx = 0
    /\ updates = <<>>
    /\ calls = <<>>
    /\ ret = NoReturn
    /\ verified = FALSE
    /\ entry = Fields

Init ==
    /\ NewProver
    /\ created = <<>>
    /\ other = Nil
    /\ thr = [t \in Threads |-> NoCall]

\* variant: Init also forgets the path
ProverInitResetsPath ==
    /\ pc = "idle"
    /\ \E c \in Codecs :
        /\ codec' = {c}
        /\ Finish("Init", Nil, <<>>, NoReturn)
    /\ path' = Nil
    /\ UNCHANGED <<config, lcpServiceClient>>
    /\ UNCHANGED aux

ProverInit ==
    /\ pc = "idle"
    /\ \E c \in Codecs :
        /\ codec' = {c}
        /\ Finish("Init", Nil, <<>>, NoReturn)
    /\ UNCHANGED <<config, path, lcpServiceClient>>
    /\ UNCHANGED aux

SetRelayInfo ==
    /\ pc = "idle"
    /\ \E p \in PathEnds :
        /\ path' = {p}
        /\ Finish("SetRelayInfo", Nil, <<>>, NoReturn)
    /\ UNCHANGED <<config, codec, lcpServiceClient>>
    /\ UNCHANGED aux

SetupForRelay ==
    /\ pc = "idle"
    /\ CanDial
    /\ \E dialOk \in BOOLEAN :
        /\ lcpServiceClient' = initServiceClient(dialOk)
        /\ Finish("SetupForRelay", Nil, <<>>, IF dialOk THEN NoReturn ELSE Err("ErrDial"))
    /\ UNCHANGED <<config, codec, path>>
    /\ UNCHANGED aux

----------------------------------------------------------------------------
(* CreateMsgCreateClient *)

\* the message the origin prover builds for its own light client
OriginCreateMsgs ==
    { [ClientState |-> PackAny("/origin.ClientState", v),
       ConsensusState |-> PackAny("/origin.ConsensusState", v),
       Signer |-> AccAddressString(<<1>>)] : v \in Values }

\* elc.MsgCreateClient sent to the LCP service
ElcMsgCreateClient(msg) ==
    [method |-> "CreateClient",
     ClientState |-> msg.ClientState,
     ConsensusState |-> msg.ConsensusState,
     Signer |-> ""]

\* elc.MsgCreateClientResponse
CreateClientResponses == [ClientId : ElcClientIds]

\* variant: the identifier returned by the service is not compared
ClientIdNotCompared(configured, returned) == TRUE

\* the identifier check after the remote call
ClientIdMatches(configured, returned) == configured = returned

\* variant: the keys expire after one day
LcpClientStateOneDay ==
    [LatestHeight |-> [RevisionNumber |-> 0, RevisionHeight |-> 0],
     Mrenclave |-> config.Mrenclave,
     KeyExpiration |-> 60 * 60 * 24,
     Keys |-> <<>>,
     AttestationTimes |-> <<>>,
     AllowedQuoteStatuses |-> config.AllowedQuoteStatuses,
     AllowedAdvisoryIds |-> config.AllowedAdvisoryIds]

\* lcptypes.ClientState built for the destination chain
LcpClientState ==
    [LatestHeight |-> [RevisionNumber |-> 0, RevisionHeight |-> 0],
     Mrenclave |-> config.Mrenclave,
     KeyExpiration |-> 60 * 60 * 24 * 7,
     Keys |-> <<>>,
     AttestationTimes |-> <<>>,
     AllowedQuoteStatuses |-> config.AllowedQuoteStatuses,
     AllowedAdvisoryIds |-> config.AllowedAdvisoryIds]

\* lcptypes.ConsensusState{}
LcpConsensusState == [StateId |-> <<>>, Timestamp |-> 0]

\* clienttypes.MsgCreateClient returned to the relayer
MsgCreateClient(signer) ==
    [ClientState |-> PackAny("/ibc.lightclients.lcp.v1.ClientState", LcpClientState),
     ConsensusState |-> PackAny("/ibc.lightclients.lcp.v1.ConsensusState", LcpConsensusState),
     Signer |-> AccAddressString(signer)]

\* variant: the identifiers are compared before the remote call is issued
CreateMsgCreateClientComparesFirst(outcomes) ==
    /\ pc = "idle"
    /\ CanDial
    /\ \E dialOk \in BOOLEAN, signer \in AccAddresses,
          org \in {RpcErr} \cup {RpcOk(m) : m \in OriginCreateMsgs},
          rem \in outcomes :
        /\ lcpServiceClient' = initServiceClient(dialOk)
        /\ IF ~dialOk
             THEN Finish("CreateMsgCreateClient", Nil, <<>>, Err("ErrDial"))
           ELSE IF ~org.ok
             THEN Finish("CreateMsgCreateClient", {org}, <<>>, Err("ErrOrigin"))
           ELSE IF ~rem.ok
             THEN Finish("CreateMsgCreateClient", {org},
                         <<Call(ElcMsgCreateClient(Msg(org)), rem)>>, Err("ErrRemote"))
           ELSE IF ~ClientIdMatches(config.ElcClientId, Msg(rem).ClientId)
             THEN Finish("CreateMsgCreateClient", {org}, <<>>, Err("ErrConfigMismatch"))
           ELSE Finish("CreateMsgCreateClient", {org},
                       <<Call(ElcMsgCreateClient(Msg(org)), rem)>>, Ok(MsgCreateClient(signer)))
    /\ UNCHANGED <<config, codec, path>>

\* the handler, against a service that answers CreateClient with one of `outcomes`
CreateMsgCreateClientAgainst(outcomes) ==
    /\ pc = "idle"
    /\ CanDial
    /\ \E dialOk \in BOOLEAN, signer \in AccAddresses,
          org \in {RpcErr} \cup {RpcOk(m) : m \in OriginCreateMsgs},
          rem \in outcomes :
        /\ lcpServiceClient' = initServiceClient(dialOk)
        /\ IF ~dialOk
             THEN Finish("CreateMsgCreateClient", Nil, <<>>, Err("ErrDial"))
           ELSE IF ~org.ok
             THEN Finish("CreateMsgCreateClient", {org}, <<>>, Err("ErrOrigin"))
           ELSE IF ~rem.ok
             THEN Finish("CreateMsgCreateClient", {org},
                         <<Call(ElcMsgCreateClient(Msg(org)), rem)>>, Err("ErrRemote"))
           ELSE IF ~ClientIdMatches(config.ElcClientId, Msg(rem).ClientId)
             THEN Finish("CreateMsgCreateClient", {org},
                         <<Call(ElcMsgCreateClient(Msg(org)), rem)>>, Err("ErrConfigMismatch"))
           ELSE Finish("CreateMsgCreateClient", {org},
                       <<Call(ElcMsgCreateClient(Msg(org)), rem)>>, Ok(MsgCreateClient(signer)))
    /\ UNCHANGED <<config, codec, path>>

\* the service may answer with any identifier, or fail
CreateMsgCreateClient ==
    /\ CreateMsgCreateClientAgainst({RpcErr} \cup {RpcOk(m) : m \in CreateClientResponses})
    /\ UNCHANGED aux

----------------------------------------------------------------------------
(* lcptypes: the commitment codec *)

\* bytes of a well-formed commitment: <<height, state id>>
CommitmentLen == 2

\* lcptypes.ParseUpdateClientCommitment
ParseUpdateClientCommitment(bz) ==
    IF Len(bz) = CommitmentLen
      THEN [ok |-> TRUE, NewHeight |-> bz[1], NewStateID |-> bz[2]]
      ELSE [ok |-> FALSE, NewHeight |-> 0, NewStateID |-> 0]

\* lcptypes.ParseStateCommitment
ParseStateCommitment(bz) ==
    IF Len(bz) = CommitmentLen
      THEN [ok |-> TRUE, Height |-> bz[1], StateID |-> bz[2]]
      ELSE [ok |-> FALSE, Height |-> 0, StateID |-> 0]

\* RLP of a byte string
RlpBytes(bz) ==
    IF Len(bz) = 1 /\ bz[1] < 128 THEN bz ELSE <<128 + Len(bz)>> \o bz

\* lcptypes.NewStateCommitmentProof(commitment, signer, signature).ToRLPBytes():
\* the RLP list of the three byte strings
ToRLPBytes(commitment, signer, signature) ==
    LET payload == RlpBytes(commitment) \o RlpBytes(signer) \o RlpBytes(signature)
    IN  <<192 + Len(payload)>> \o payload

----------------------------------------------------------------------------
(* SetupHeadersForUpdate *)

RECURSIVE SeqsUpTo(_, _)
SeqsUpTo(S, n) ==
    IF n = 0 THEN {<<>>}
    ELSE LET shorter == SeqsUpTo(S, n - 1)
         IN  shorter \cup {Append(q, x) : q \in {r \in shorter : Len(r) = n - 1}, x \in S}

\* variant: the request names a fixed client instead of the configured one
ElcMsgUpdateClientFixedId(clientId, anyHeader) ==
    [method |-> "UpdateClient", ClientId |-> "lcp-client-0", Header |-> anyHeader]

\* elc.MsgUpdateClient
ElcMsgUpdateClient(clientId, anyHeader) ==
    [method |-> "UpdateClient", ClientId |-> clientId, Header |-> anyHeader]

\* lcptypes.UpdateClientHeader appended for one response
UpdateClientHeader(res) ==
    [Commitment |-> res.Commitment, Signer |-> res.Signer, Signature |-> res.Signature]

\* variant: an empty header sequence is reported as an error
SkipUpdateClientAsError == Return(Nil, {"ErrNoHeaders"})

\* `return nil, nil`: no headers, the relayer skips the update-client
SkipUpdateClient == Return(Nil, Nil)

\* variant: a failure returns the update headers produced so far with the error
ReturnHeadersPartial(r) ==
    /\ pc' = "idle"
    /\ ret' = IF r.err # Nil THEN Return({updates}, r.err) ELSE r

\* variant: a failed UpdateClient call is re-issued instead of returned
ReturnHeadersRetry(r) ==
    IF r = Return(Nil, {"ErrRemote"})
      THEN UNCHANGED <<pc, ret>>
      ELSE pc' = "idle" /\ ret' = r

\* the return statements of SetupHeadersForUpdate
ReturnHeaders(r) ==
    /\ pc' = "idle"
    /\ ret' = r

\* from the entry of the handler to the head of the for loop
SetupHeadersForUpdate ==
    /\ pc = "idle"
    /\ CanDial
    /\ \E dialOk \in BOOLEAN,
          org \in {RpcErr} \cup {RpcOk(hs) : hs \in SeqsUpTo(OriginHeaders, MaxHeaders)} :
        /\ lcpServiceClient' = initServiceClient(dialOk)
        /\ op' = "SetupHeadersForUpdate"
        /\ entry' = Fields
        /\ calls' = <<>>
        /\ idx' = 0
        /\ updates' = <<>>
        /\ IF ~dialOk
             THEN origin' = Nil /\ headers' = <<>> /\ ReturnHeaders(Err("ErrDial"))
           ELSE IF ~org.ok
             THEN origin' = {org} /\ headers' = <<>> /\ ReturnHeaders(Err("ErrOrigin"))
           ELSE IF Len(Msg(org)) = 0
             THEN origin' = {org} /\ headers' = <<>> /\ ReturnHeaders(SkipUpdateClient)
           ELSE /\ origin' = {org}
                /\ headers' = Msg(org)
                /\ pc' = "update_loop"
                /\ ret' = NoReturn
    /\ UNCHANGED <<config, codec, path, verified>>
    /\ UNCHANGED aux

\* variant: the loop walks the headers newest first
NextHeaderReversed == headers[Len(headers) - idx]

\* the header the next iteration of the loop takes
NextHeader == headers[idx + 1]

\* one iteration of the for loop, and the return after the last one
UpdateLoop ==
    /\ pc = "update_loop"
    /\ LET h == NextHeader
           req == ElcMsgUpdateClient(config.ElcClientId, PackHeader(h))
       IN  \E rem \in {RpcErr} \cup {RpcOk(m) : m \in Responses} :
            IF ~PackHeaderOk(h)
              THEN /\ ReturnHeaders(Err("ErrPack"))
                   /\ UNCHANGED <<calls, updates, idx>>
            ELSE IF ~rem.ok
              THEN /\ calls' = Append(calls, Call(req, rem))
                   /\ ReturnHeaders(Err("ErrRemote"))
                   /\ UNCHANGED <<updates, idx>>
            ELSE IF ~ParseUpdateClientCommitment(Msg(rem).Commitment).ok
              THEN /\ calls' = Append(calls, Call(req, rem))
                   /\ ReturnHeaders(Err("ErrParse"))
                   /\ UNCHANGED <<updates, idx>>
            ELSE /\ calls' = Append(calls, Call(req, rem))
                 /\ updates' = Append(updates, UpdateClientHeader(Msg(rem)))
                 /\ idx' = idx + 1
                 /\ IF idx + 1 = Len(headers)
                      THEN ReturnHeaders(Ok(updates'))
                      ELSE UNCHANGED <<pc, ret>>
    /\ UNCHANGED <<config, codec, path, lcpServiceClient, op, origin, headers, verified, entry>>
    /\ UNCHANGED aux

----------------------------------------------------------------------------
(* The six queries.  An origin response is (Value, ProofHeight, Proof),    *)
(* where Value stands for the field the kind carries: ConsensusState,      *)
(* ClientState, Connection, Channel, Commitment or Acknowledgement.        *)

OriginResponses == [Value : Values, ProofHeight : Heights, Proof : Proofs]

OriginOutcomes == {RpcErr} \cup {RpcOk(r) : r \in OriginResponses}
RemoteOutcomes == {RpcErr} \cup {RpcOk(m) : m \in Responses}

\* the value of pr.path; a nil pr.path is never dereferenced past HandlesSet
Path == CHOOSE p \in path : TRUE

\* variant: a call on the nil handle goes through
HandlesSetPathOnly == path # Nil

\* the dereferences of pr.lcpServiceClient and pr.path succeed
HandlesSet == lcpServiceClient # Nil /\ path # Nil

\* variant: an empty proof is delegated like any other
NeverNonExistent(res) == FALSE

\* `len(res.Proof) == 0`: the object does not exist on the origin chain
NonExistent(res) == Len(res.Proof) = 0

\* variant: the proof height of the origin response is kept
DelegatedResponseOriginHeight(res, res2, commitment) ==
    [Value |-> res.Value,
     Proof |-> ToRLPBytes(res2.Commitment, res2.Signer, res2.Signature),
     ProofHeight |-> res.ProofHeight]

\* the response a query builds from the origin response and the LCP response
DelegatedResponse(res, res2, commitment) ==
    [Value |-> res.Value,
     Proof |-> ToRLPBytes(res2.Commitment, res2.Signer, res2.Signature),
     ProofHeight |-> commitment.Height]

\* from the remote call to the return, common to the six queries
VerifyAndReturn(name, org, req) ==
    IF ~HandlesSet
      THEN Crash(name, {org})
    ELSE \E rem \in RemoteOutcomes :
    IF ~rem.ok
      THEN Finish(name, {org}, <<Call(req, rem)>>, Err("ErrRemote"))
    ELSE IF ~ParseStateCommitment(Msg(rem).Commitment).ok
      THEN Finish(name, {org}, <<Call(req, rem)>>, Err("ErrParse"))
    ELSE Finish(name, {org}, <<Call(req, rem)>>,
                Ok(DelegatedResponse(Msg(org), Msg(rem), ParseStateCommitment(Msg(rem).Commitment))))

\* ibc.MsgVerifyClientConsensus
MsgVerifyClientConsensus(res, dstClientConsHeight) ==
    [method |-> "VerifyClientConsensus",
     ClientId |-> config.ElcClientId,
     Prefix |-> StoreKey,
     CounterpartyClientId |-> Path.ClientID,
     ConsensusHeight |-> dstClientConsHeight,
     ExpectedAnyClientConsensusState |-> res.Value,
     ProofHeight |-> res.ProofHeight,
     Proof |-> res.Proof]

QueryClientConsensusStateWithProof ==
    /\ pc = "idle"
    /\ \E dstClientConsHeight \in Heights, org \in OriginOutcomes :
        IF ~org.ok
          THEN Finish("QueryClientConsensusStateWithProof", {org}, <<>>, Err("ErrOrigin"))
          ELSE VerifyAndReturn("QueryClientConsensusStateWithProof", org,
                               MsgVerifyClientConsensus(Msg(org), dstClientConsHeight))
    /\ UNCHANGED session
    /\ UNCHANGED aux

\* ibc.MsgVerifyClient
MsgVerifyClient(res) ==
    [method |-> "VerifyClient",
     ClientId |-> config.ElcClientId,
     Prefix |-> StoreKey,
     CounterpartyClientId |-> Path.ClientID,
     ExpectedAnyClientState |-> res.Value,
     ProofHeight |-> res.ProofHeight,
     Proof |-> res.Proof]

\* variant: the origin prover's error is dropped
QueryClientStateWithProofDropsOriginError ==
    /\ pc = "idle"
    /\ \E org \in OriginOutcomes :
        IF ~org.ok
          THEN Finish("QueryClientStateWithProof", {org}, <<>>, Return(Nil, Nil))
          ELSE VerifyAndReturn("QueryClientStateWithProof", org, MsgVerifyClient(Msg(org)))
    /\ UNCHANGED session
    /\ UNCHANGED aux

QueryClientStateWithProof ==
    /\ pc = "idle"
    /\ \E org \in OriginOutcomes :
        IF ~org.ok
          THEN Finish("QueryClientStateWithProof", {org}, <<>>, Err("ErrOrigin"))
          ELSE VerifyAndReturn("QueryClientStateWithProof", org, MsgVerifyClient(Msg(org)))
    /\ UNCHANGED session
    /\ UNCHANGED aux

\* ibc.MsgVerifyConnection
MsgVerifyConnection(res) ==
    [method |-> "VerifyConnection",
     ClientId |-> config.ElcClientId,
     Prefix |-> StoreKey,
     ConnectionId |-> Path.ConnectionID,
     ExpectedConnection |-> res.Value,
     ProofHeight |-> res.ProofHeight,
     Proof |-> res.Proof]

QueryConnectionWithProof ==
    /\ pc = "idle"
    /\ \E org \in OriginOutcomes :
        IF ~org.ok
          THEN Finish("QueryConnectionWithProof", {org}, <<>>, Err("ErrOrigin"))
        ELSE IF NonExistent(Msg(org))
          THEN Finish("QueryConnectionWithProof", {org}, <<>>, Ok(Msg(org)))
        ELSE VerifyAndReturn("QueryConnectionWithProof", org, MsgVerifyConnection(Msg(org)))
    /\ UNCHANGED session
    /\ UNCHANGED aux

\* ibc.MsgVerifyChannel
MsgVerifyChannel(res) ==
    [method |-> "VerifyChannel",
     ClientId |-> config.ElcClientId,
     Prefix |-> StoreKey,
     PortId |-> Path.PortID,
     ChannelId |-> Path.ChannelID,
     ExpectedChannel |-> res.Value,
     ProofHeight |-> res.ProofHeight,
     Proof |-> res.Proof]

QueryChannelWithProof ==
    /\ pc = "idle"
    /\ \E org \in OriginOutcomes :
        IF ~org.ok
          THEN Finish("QueryChannelWithProof", {org}, <<>>, Err("ErrOrigin"))
        ELSE IF NonExistent(Msg(org))
          THEN Finish("QueryChannelWithProof", {org}, <<>>, Ok(Msg(org)))
        ELSE VerifyAndReturn("QueryChannelWithProof", org, MsgVerifyChannel(Msg(org)))
    /\ UNCHANGED session
    /\ UNCHANGED aux

\* ibc.MsgVerifyPacket
MsgVerifyPacket(res, seq) ==
    [method |-> "VerifyPacket",
     ClientId |-> config.ElcClientId,
     Prefix |-> StoreKey,
     PortId |-> Path.PortID,
     ChannelId |-> Path.ChannelID,
     Sequence |-> seq,
     Commitment |-> res.Value,
     ProofHeight |-> res.ProofHeight,
     Proof |-> res.Proof]

QueryPacketCommitmentWithProof ==
    /\ pc = "idle"
    /\ \E seq \in Seqs, org \in OriginOutcomes :
        IF ~org.ok
          THEN Finish("QueryPacketCommitmentWithProof", {org}, <<>>, Err("ErrOrigin"))
          ELSE VerifyAndReturn("QueryPacketCommitmentWithProof", org, MsgVerifyPacket(Msg(org), seq))
    /\ UNCHANGED session
    /\ UNCHANGED aux

\* ibc.MsgVerifyPacketAcknowledgement
MsgVerifyPacketAcknowledgement(res, seq) ==
    [method |-> "VerifyPacketAcknowledgement",
     ClientId |-> config.ElcClientId,
     Prefix |-> StoreKey,
     PortId |-> Path.PortID,
     ChannelId |-> Path.ChannelID,
     Sequence |-> seq,
     Commitment |-> res.Value,
     ProofHeight |-> res.ProofHeight,
     Proof |-> res.Proof]

QueryPacketAcknowledgementCommitmentWithProof ==
    /\ pc = "idle"
    /\ \E seq \in Seqs, org \in OriginOutcomes :
        IF ~org.ok
          THEN Finish("QueryPacketAcknowledgementCommitmentWithProof", {org}, <<>>, Err("ErrOrigin"))
          ELSE VerifyAndReturn("QueryPacketAcknowledgementCommitmentWithProof", org,
                               MsgVerifyPacketAcknowledgement(Msg(org), seq))
    /\ UNCHANGED session
    /\ UNCHANGED aux

----------------------------------------------------------------------------

Next ==
    \/ ProverInit
    \/ SetRelayInfo
    \/ SetupForRelay
    \/ CreateMsgCreateClient
    \/ SetupHeadersForUpdate
    \/ UpdateLoop
    \/ QueryClientConsensusStateWithProof
    \/ QueryClientStateWithProof
    \/ QueryConnectionWithProof
    \/ QueryChannelWithProof
    \/ QueryPacketCommitmentWithProof
    \/ QueryPacketAcknowledgementCommitmentWithProof

Spec == Init /\ [][Next]_vars

----------------------------------------------------------------------------
(* Two goroutines calling into one Prover.  The Prover has no mutex: the   *)
(* steps below are the points at which a handler touches                   *)
(* pr.lcpServiceClient, and they interleave freely.                        *)

DialingOps == {"SetupForRelay", "CreateMsgCreateClient", "SetupHeadersForUpdate"}

HandleConns == {h.conn : h \in lcpServiceClient}
LocalConns == UNION {thr[t].conn : t \in Threads}

\* the number grpc.Dial gives the next connection
FreshConn ==
    LET used == HandleConns \cup LocalConns
    IN  IF used = {} THEN 1 ELSE (CHOOSE n \in used : \A m \in used : m <= n) + 1

InitConcurrent ==
    /\ NewProver
    /\ created = <<>>
    /\ other = Nil
    /\ thr = [t \in Threads |-> NoCall]

\* a goroutine enters SetupForRelay, CreateMsgCreateClient or SetupHeadersForUpdate
ThreadInvoke(t) ==
    /\ thr[t].pc = "idle"
    /\ \E o \in DialingOps : thr' = [thr EXCEPT ![t] = [op |-> o, pc |-> "dial", conn |-> Nil, used |-> Nil]]
    /\ UNCHANGED <<config, codec, path, lcpServiceClient, pc, op, origin, headers, idx, updates, calls, ret,
                   verified, entry, created, other>>

\* initServiceClient: grpc.Dial returns
ThreadDial(t) ==
    /\ thr[t].pc = "dial"
    /\ FreshConn <= MaxDials
    /\ \E dialOk \in BOOLEAN :
         thr' = [thr EXCEPT ![t] = IF dialOk
                                     THEN [@ EXCEPT !.pc = "store", !.conn = {FreshConn}]
                                     ELSE [@ EXCEPT !.pc = "done"]]
    /\ UNCHANGED <<config, codec, path, lcpServiceClient, pc, op, origin, headers, idx, updates, calls, ret,
                   verified, entry, created, other>>

\* initServiceClient: pr.lcpServiceClient = NewLCPServiceClient(conn, pr.codec)
ThreadStore(t) ==
    /\ thr[t].pc = "store"
    /\ lcpServiceClient' = {NewLCPServiceClient(n, codec) : n \in thr[t].conn}
    /\ thr' = [thr EXCEPT ![t].pc = IF thr[t].op = "SetupForRelay" THEN "done" ELSE "call"]
    /\ UNCHANGED <<config, codec, path, pc, op, origin, headers, idx, updates, calls, ret,
                   verified, entry, created, other>>

\* what a read of pr.lcpServiceClient by t can yield: the stored handle, or,
\* the read racing with the store of another goroutine, the handle being stored
ReadHandle(t) ==
    {lcpServiceClient} \cup
    { {NewLCPServiceClient(n, codec) : n \in thr[u].conn} : u \in {v \in Threads \ {t} : thr[v].pc = "store"} }

\* the handler reads pr.lcpServiceClient and issues CreateClient / UpdateClient through it
ThreadCall(t) ==
    /\ thr[t].pc = "call"
    /\ \E h \in ReadHandle(t) : thr' = [thr EXCEPT ![t] = [@ EXCEPT !.pc = "done", !.used = h]]
    /\ UNCHANGED <<config, codec, path, lcpServiceClient, pc, op, origin, headers, idx, updates, calls, ret,
                   verified, entry, created, other>>

\* the handler returns
ThreadReturn(t) ==
    /\ thr[t].pc = "done"
    /\ thr' = [thr EXCEPT ![t] = NoCall]
    /\ UNCHANGED <<config, codec, path, lcpServiceClient, pc, op, origin, headers, idx, updates, calls, ret,
                   verified, entry, created, other>>

NextConcurrent ==
    \/ ProverInit
    \/ \E t \in Threads : ThreadInvoke(t)
    \/ \E t \in Threads : ThreadDial(t)
    \/ \E t \in Threads : ThreadStore(t)
    \/ \E t \in Threads : ThreadCall(t)
    \/ \E t \in Threads : ThreadReturn(t)

SpecConcurrent == InitConcurrent /\ [][NextConcurrent]_vars

----------------------------------------------------------------------------
(* Two Provers, each built by its own NewProver call.  The first is the    *)
(* Prover of the variables above; `other` holds the fields of the second,  *)
(* whose methods act on their own receiver.                                *)

\* everything that belongs to the first Prover and its invocations
first == <<config, codec, path, lcpServiceClient, pc, op, origin, headers, idx, updates, calls, ret,
           verified, entry>>

TheOther == CHOOSE o \in other : TRUE

InitTwo ==
    /\ NewProver
    /\ created = <<>>
    /\ other = {[config |-> c, codec |-> Nil, path |-> Nil, lcpServiceClient |-> Nil] : c \in Configs \ {config}}
    /\ thr = [t \in Threads |-> NoCall]

\* Init on the second Prover
OtherInit ==
    /\ other # Nil
    /\ \E c \in Codecs : other' = {[TheOther EXCEPT !.codec = {c}]}
    /\ UNCHANGED <<first, created, thr>>

\* variant: the path is kept in a variable both Provers use
OtherSetRelayInfoShared ==
    /\ other # Nil
    /\ \E p \in PathEnds :
        /\ other' = {[TheOther EXCEPT !.path = {p}]}
        /\ path' = {p}
    /\ UNCHANGED <<config, codec, lcpServiceClient, pc, op, origin, headers, idx, updates, calls, ret,
                   verified, entry, created, thr>>

\* SetRelayInfo on the second Prover
OtherSetRelayInfo ==
    /\ other # Nil
    /\ \E p \in PathEnds : other' = {[TheOther EXCEPT !.path = {p}]}
    /\ UNCHANGED <<first, created, thr>>

\* initServiceClient on the second Prover (from SetupForRelay,
\* CreateMsgCreateClient or SetupHeadersForUpdate), the dial succeeding
OtherInitServiceClient ==
    /\ other # Nil
    /\ LET next == IF TheOther.lcpServiceClient = Nil
                     THEN 1
                     ELSE (CHOOSE c \in TheOther.lcpServiceClient : TRUE).conn + 1
       IN  /\ next <= MaxDials
           /\ other' = {[TheOther EXCEPT !.lcpServiceClient = {NewLCPServiceClient(next, TheOther.codec)}]}
    /\ UNCHANGED <<first, created, thr>>

NextTwo ==
    \/ ProverInit
    \/ SetRelayInfo
    \/ SetupForRelay
    \/ CreateMsgCreateClient
    \/ QueryClientStateWithProof
    \/ OtherInit
    \/ OtherSetRelayInfo
    \/ OtherInitServiceClient

SpecTwo == InitTwo /\ [][NextTwo]_vars

----------------------------------------------------------------------------
(* One Prover against an LCP service that numbers the clients it creates:  *)
(* the n-th CreateClient call that it serves returns the identifier        *)
(* "lcp-client-<n>", counting from zero.                                   *)

MaxClients == 3

\* the identifier of the client created after n others
ClientIdOf(n) == "lcp-client-" \o ToString(n)

\* the identifiers of the clients the answered CreateClient calls in cs created
ServiceCreated(cs) ==
    IF Len(cs) = 1 /\ cs[1].resp.ok THEN <<Msg(cs[1].resp).ClientId>> ELSE <<>>

\* CreateMsgCreateClient served by the numbering service
CreateMsgCreateClientSequential ==
    /\ Len(created) < MaxClients
    /\ CreateMsgCreateClientAgainst({RpcErr, RpcOk([ClientId |-> ClientIdOf(Len(created))])})
    /\ created' = created \o ServiceCreated(calls')
    /\ UNCHANGED <<other, thr>>

\* a CreateClient call of another relayer, served by the same service
ServiceCreateClient ==
    /\ Len(created) < MaxClients
    /\ created' = Append(created, ClientIdOf(Len(created)))
    /\ UNCHANGED <<first, other, thr>>

NextService ==
    \/ ProverInit
    \/ SetRelayInfo
    \/ SetupForRelay
    \/ CreateMsgCreateClientSequential
    \/ ServiceCreateClient

SpecService == Init /\ [][NextService]_vars

----------------------------------------------------------------------------
(* Properties *)

QueryOps ==
    {"QueryClientConsensusStateWithProof", "QueryClientStateWithProof",
     "QueryConnectionWithProof", "QueryChannelWithProof",
     "QueryPacketCommitmentWithProof", "QueryPacketAcknowledgementCommitmentWithProof"}

\* the operations that return (result, error)
PairOps == QueryOps \cup {"CreateMsgCreateClient", "SetupHeadersForUpdate"}

\* the operations that return only an error
SetupOps == {"Init", "SetRelayInfo", "SetupForRelay"}

Returned == pc = "idle"

TheOrigin == Msg(CHOOSE o \in origin : TRUE)
OriginOk == origin # Nil /\ \A o \in origin : o.ok

TheResult == CHOOSE r \in ret.res : TRUE
SliceLen(res) == IF res = Nil THEN 0 ELSE Len(CHOOSE r \in res : TRUE)

\* the i-th remote call of the invocation got a response, and its commitment parses
CallSucceeded(i) ==
    /\ calls[i].resp.ok
    /\ Len(Msg(calls[i].resp).Commitment) = CommitmentLen

(* C1: when the remote CreateClient call returned an identifier R,
   CreateMsgCreateClient fails with the configuration mismatch error iff R
   differs from the configured ElcClientId, and otherwise returns the new
   client/consensus message with no error. *)
IdentityBinding ==
    (op = "CreateMsgCreateClient" /\ Len(calls) = 1 /\ calls[1].resp.ok) =>
        LET R == Msg(calls[1].resp).ClientId
            C == config.ElcClientId
        IN  /\ Returned
            /\ (ret = Return(Nil, {"ErrConfigMismatch"})) <=> (C # R)
            /\ (C = R) =>
                 /\ ret.err = Nil
                 /\ \E signer \in AccAddresses :
                      ret.res =
                        {[ClientState |-> PackAny("/ibc.lightclients.lcp.v1.ClientState", LcpClientState),
                          ConsensusState |-> PackAny("/ibc.lightclients.lcp.v1.ConsensusState", LcpConsensusState),
                          Signer |-> AccAddressString(signer)]}

IdentityBindingWitness ==
    /\ op = "CreateMsgCreateClient"
    /\ Len(calls) = 1
    /\ calls[1].resp.ok
    /\ config.ElcClientId = "lcp-client-0"
    /\ Msg(calls[1].resp).ClientId = "lcp-client-1"
    /\ ret.err = {"ErrConfigMismatch"}

(* C2, as claimed: in each of the six queries, when the origin result has
   zero-length proof bytes the query returns exactly the origin result and
   issues no remote verification call. *)
ShortCircuitAllSix ==
    (op \in QueryOps /\ Returned /\ OriginOk /\ Len(TheOrigin.Proof) = 0) =>
        /\ ret = Return({TheOrigin}, Nil)
        /\ calls = <<>>

(* C2, amended: in the connection and channel queries, when the origin
   result has zero-length proof bytes the query returns exactly the origin
   result (same value, proof height and empty proof) and issues no remote
   verification call. *)
ShortCircuitConnectionChannel ==
    (/\ op \in {"QueryConnectionWithProof", "QueryChannelWithProof"}
     /\ OriginOk
     /\ Len(TheOrigin.Proof) = 0) =>
        /\ Returned
        /\ ret = Return({TheOrigin}, Nil)
        /\ calls = <<>>

ShortCircuitWitness ==
    /\ op = "QueryConnectionWithProof"
    /\ lcpServiceClient # Nil
    /\ path # Nil
    /\ OriginOk
    /\ TheOrigin.Proof = <<>>
    /\ ret.res = {TheOrigin}

(* C3: when all N headers pack and every UpdateClient call and commitment
   parse succeeds, SetupHeadersForUpdate issues exactly N UpdateClient calls,
   the i-th carrying the i-th header, and returns N update headers, the i-th
   carrying the commitment, signer and signature of the i-th response. *)
HeaderOrdering ==
    (/\ op = "SetupHeadersForUpdate"
     /\ Returned
     /\ Len(headers) > 0
     /\ \A i \in 1..Len(headers) :
          PackHeaderOk(headers[i]) /\ (i <= Len(calls) => CallSucceeded(i))) =>
        /\ Len(calls) = Len(headers)
        /\ \A i \in 1..Len(calls) :
             /\ calls[i].req.method = "UpdateClient"
             /\ calls[i].req.Header = [TypeUrl |-> "/header", Value |-> headers[i]]
        /\ ret.err = Nil
        /\ ret.res # Nil
        /\ Len(TheResult) = Len(headers)
        /\ \A i \in 1..Len(headers) :
             /\ TheResult[i].Commitment = Msg(calls[i].resp).Commitment
             /\ TheResult[i].Signer = Msg(calls[i].resp).Signer
             /\ TheResult[i].Signature = Msg(calls[i].resp).Signature

HeaderOrderingWitness ==
    /\ op = "SetupHeadersForUpdate"
    /\ Returned
    /\ headers = <<"H1", "H2">>
    /\ Len(calls) = 2
    /\ ret.res # Nil
    /\ Len(TheResult) = 2
    /\ TheResult[1].Commitment = <<1, 170>>
    /\ TheResult[2].Commitment = <<2, 187>>

\* header k of the batch failed: it does not pack, or its call or its commitment parse failed
HeaderFailed(k) ==
    \/ ~PackHeaderOk(headers[k])
    \/ k <= Len(calls) /\ ~CallSucceeded(k)

(* C4: an UpdateClient call is issued for header i only after every earlier
   header succeeded, so none is issued past a failing header; and a batch in
   which a header failed returns an error and no update headers. *)
AbortAtFirstFailure ==
    op = "SetupHeadersForUpdate" =>
        /\ Len(calls) <= Len(headers)
        /\ \A i \in 1..Len(calls) : \A j \in 1..(i - 1) : ~HeaderFailed(j)
        /\ Returned =>
             \A k \in 1..Len(headers) :
                 (HeaderFailed(k) /\ \A j \in 1..(k - 1) : ~HeaderFailed(j)) =>
                     /\ Len(calls) <= k
                     /\ ret.res = Nil
                     /\ ret.err # Nil

AbortAtFirstFailureWitness ==
    /\ op = "SetupHeadersForUpdate"
    /\ Returned
    /\ Len(headers) = 2
    /\ Len(calls) = 1
    /\ ~calls[1].resp.ok
    /\ ret.res = Nil

(* C5: when the origin prover returns an empty header sequence,
   SetupHeadersForUpdate returns no headers and no error and issues no
   remote call. *)
EmptyHeaderSkip ==
    (op = "SetupHeadersForUpdate" /\ origin = {RpcOk(<<>>)}) =>
        /\ Returned
        /\ SliceLen(ret.res) = 0
        /\ ret.err = Nil
        /\ calls = <<>>

EmptyHeaderSkipWitness ==
    /\ op = "SetupHeadersForUpdate"
    /\ origin = {RpcOk(<<>>)}
    /\ Returned
    /\ lcpServiceClient # Nil

(* C6: in each of the six queries, when the remote verification call and
   the commitment parse succeed, the result carries the origin value, the
   serialization of the returned (commitment, signer, signature) as proof,
   and the height of the parsed commitment as proof height. *)
DelegatedProofConstruction ==
    (op \in QueryOps /\ Len(calls) = 1 /\ CallSucceeded(1)) =>
        LET res2 == Msg(calls[1].resp)
        IN  /\ Returned
            /\ ret.err = Nil
            /\ ret.res # Nil
            /\ TheResult.Value = TheOrigin.Value
            /\ TheResult.Proof = ToRLPBytes(res2.Commitment, res2.Signer, res2.Signature)
            /\ TheResult.ProofHeight = res2.Commitment[1]

DelegatedProofWitness ==
    /\ op = "QueryPacketAcknowledgementCommitmentWithProof"
    /\ Len(calls) = 1
    /\ CallSucceeded(1)
    /\ TheOrigin.ProofHeight = 1
    /\ ret.res # Nil
    /\ TheResult.ProofHeight = 2

(* C7: an invocation issues at most one CreateClient or Verify call and at
   most one UpdateClient call per header position; a failed remote call is
   the last call of its invocation, which returns the error. *)
NoRetries ==
    /\ op \in QueryOps \cup {"CreateMsgCreateClient"} => Len(calls) <= 1
    /\ op = "SetupHeadersForUpdate" =>
         /\ Len(calls) <= Len(headers)
         /\ \A i \in 1..Len(calls) : calls[i].req.Header.Value = headers[i]
    /\ \A i \in 1..Len(calls) :
         ~calls[i].resp.ok =>
             /\ i = Len(calls)
             /\ Returned
             /\ ret = Return(Nil, {"ErrRemote"})

NoRetriesWitness ==
    /\ op = "SetupHeadersForUpdate"
    /\ Returned
    /\ Len(headers) = 2
    /\ Len(calls) = 2
    /\ ~calls[2].resp.ok
    /\ ret = Return(Nil, {"ErrRemote"})

(* C8, as claimed: every operation that returns a (result, error) pair
   returns exactly one of the two. *)
ResultXorError ==
    (Returned /\ op \in PairOps) => Cardinality(ret.res) + Cardinality(ret.err) = 1

(* C8, amended: every invocation that returns yields either a populated
   result with no error or an error with no result, never both; the one
   exception is SetupHeadersForUpdate on an empty origin header sequence,
   which returns neither.  The session setup operations return only an
   error. *)
NoPartialSuccess ==
    /\ (Returned /\ op \in PairOps) =>
         IF op = "SetupHeadersForUpdate" /\ origin = {RpcOk(<<>>)}
           THEN ret = Return(Nil, Nil)
           ELSE /\ Cardinality(ret.res) + Cardinality(ret.err) = 1
                /\ (op = "SetupHeadersForUpdate" /\ ret.res # Nil) => Len(TheResult) > 0
    /\ op \in SetupOps => ret.res = Nil

NoPartialSuccessWitness ==
    /\ op = "SetupHeadersForUpdate"
    /\ Returned
    /\ Len(calls) = 2
    /\ CallSucceeded(1)
    /\ ~CallSucceeded(2)
    /\ calls[2].resp.ok
    /\ ret = Return(Nil, {"ErrParse"})

(* C9: every UpdateClient and Verify request carries the configured
   ElcClientId, and no step changes the configuration. *)
BoundIdInEveryRequest ==
    /\ [](\A i \in 1..Len(calls) :
            calls[i].req.method # "CreateClient" => calls[i].req.ClientId = config.ElcClientId)
    /\ [][config' = config]_vars

BoundIdWitness ==
    /\ config.ElcClientId = "lcp-client-1"
    /\ verified
    /\ op = "SetupHeadersForUpdate"
    /\ Len(calls) = 2
    /\ calls[2].req.ClientId = "lcp-client-1"

(* C10, as claimed: once the path is set and a verification call has been
   made, no later step changes the path. *)
PathReadOnlyAfterVerify ==
    [][(path # Nil /\ verified) => path' = path]_vars

(* C10, amended: once the path is set and a verification call has been
   made, no later operation other than SetRelayInfo changes the path;
   SetRelayInfo replaces it whenever it is called. *)
PathChangedOnlyBySetRelayInfo ==
    [][(path # Nil /\ verified) => (path' = path \/ (op' = "SetRelayInfo" /\ path' \subseteq PathEnds /\ path' # Nil))]_vars

PathWitness ==
    /\ verified
    /\ path # Nil
    /\ op = "Init"

\* the invocation returned a commitment parse failure
MalformedCommitment == Returned /\ ret = Return(Nil, {"ErrParse"})

(* C11, as claimed: after a delegated query or a header application that
   fails on a commitment that does not parse, configuration, path, codec and
   connection handle are what they were before the call. *)
MalformedCommitmentKeepsSession ==
    MalformedCommitment => Fields = entry

(* C11, amended: after such a failure the configuration, the path and the
   codec are what they were before the call; the connection handle is what
   it was before a failed query, and after a failed header application it is
   the handle that call established on entry. *)
MalformedCommitmentKeepsFields ==
    MalformedCommitment =>
        /\ config = entry.config
        /\ path = entry.path
        /\ codec = entry.codec
        /\ op \in QueryOps => lcpServiceClient = entry.lcpServiceClient
        /\ op = "SetupHeadersForUpdate" =>
             lcpServiceClient =
               {[conn |-> IF entry.lcpServiceClient = Nil
                            THEN 1
                            ELSE (CHOOSE c \in entry.lcpServiceClient : TRUE).conn + 1,
                 codec |-> entry.codec]}

MalformedCommitmentWitness ==
    /\ MalformedCommitment
    /\ op = "SetupHeadersForUpdate"
    /\ codec # Nil
    /\ entry.lcpServiceClient # Nil
    /\ lcpServiceClient # entry.lcpServiceClient

(* C12: while one goroutine is about to replace the connection handle, no
   other goroutine is about to replace it or to read it for a remote call,
   and no remote call went through a handle other than the stored one. *)
HandleAccessGuarded ==
    \A t \in Threads :
        /\ thr[t].pc = "store" =>
             \A u \in Threads \ {t} : thr[u].pc \notin {"store", "call"}
        /\ (thr[t].pc = "done" /\ thr[t].used # Nil) =>
             \A u \in Threads \ {t} : thr[u].pc = "store" => thr[t].used = lcpServiceClient

(* C13: a step changes the state of at most one of the two Provers, and
   a request of the first Prover carries its own client identifier and its
   own path, whatever the second Prover holds. *)
SessionIsolation ==
    /\ [][first' = first \/ other' = other]_vars
    /\ [](\A i \in 1..Len(calls) :
             IsVerify(calls[i].req) =>
                 /\ calls[i].req.ClientId = config.ElcClientId
                 /\ calls[i].req.CounterpartyClientId \in {p.ClientID : p \in path})

SessionIsolationWitness ==
    /\ other # Nil
    /\ TheOther.path # Nil
    /\ TheOther.lcpServiceClient # Nil
    /\ path # Nil
    /\ path # TheOther.path
    /\ op = "QueryClientStateWithProof"
    /\ Returned
    /\ ret.res # Nil

\* what a caller can tell of a handle: whether there is one, and its codec
Observable(handle) == {h.codec : h \in handle}

(* C14: a remote call of CreateMsgCreateClient or SetupHeadersForUpdate goes
   out only after that invocation established the handle, and a successful
   SetupForRelay leaves one; a failed establishment issues no remote call
   and keeps the handle there was; establishing again leaves exactly one
   handle, observably the one a single establishment gives, and leaves
   configuration, codec and path unchanged. *)
HandleEstablishment ==
    /\ []((op \in DialingOps /\ ret.err = {"ErrDial"}) =>
             /\ calls = <<>>
             /\ lcpServiceClient = entry.lcpServiceClient)
    /\ []((op \in {"CreateMsgCreateClient", "SetupHeadersForUpdate"} /\ Len(calls) > 0) =>
             /\ lcpServiceClient # Nil
             /\ lcpServiceClient # entry.lcpServiceClient)
    /\ []((op = "SetupForRelay" /\ ret.err = Nil) => lcpServiceClient # Nil)
    /\ [][(lcpServiceClient # Nil /\ lcpServiceClient' # lcpServiceClient) =>
             /\ op' \in DialingOps
             /\ Cardinality(lcpServiceClient') = 1
             /\ Observable(lcpServiceClient') = {codec}
             /\ config' = config
             /\ codec' = codec
             /\ path' = path]_vars

HandleEstablishmentWitness ==
    /\ op = "SetupForRelay"
    /\ ret.err = Nil
    /\ entry.lcpServiceClient # Nil
    /\ lcpServiceClient # entry.lcpServiceClient
    /\ Observable(lcpServiceClient) = Observable(entry.lcpServiceClient)

(* C15: the client state a successful CreateMsgCreateClient returns has zero
   latest height, the configured enclave measurement, a key expiration of
   604800 seconds, no keys and no attestation times, and the configured
   quote statuses and advisory ids, with an empty consensus state; each is
   fixed by the configuration alone. *)
CreatedClientState ==
    (op = "CreateMsgCreateClient" /\ Returned /\ ret.err = Nil) =>
        /\ ret.res # Nil
        /\ TheResult.ClientState.Value.LatestHeight = [RevisionNumber |-> 0, RevisionHeight |-> 0]
        /\ TheResult.ClientState.Value.Mrenclave = config.Mrenclave
        /\ TheResult.ClientState.Value.KeyExpiration = 604800
        /\ TheResult.ClientState.Value.Keys = <<>>
        /\ TheResult.ClientState.Value.AttestationTimes = <<>>
        /\ TheResult.ClientState.Value.AllowedQuoteStatuses = config.AllowedQuoteStatuses
        /\ TheResult.ClientState.Value.AllowedAdvisoryIds = config.AllowedAdvisoryIds
        /\ TheResult.ConsensusState.Value = [StateId |-> <<>>, Timestamp |-> 0]

CreatedClientStateWitness ==
    /\ op = "CreateMsgCreateClient"
    /\ Returned
    /\ ret.res # Nil
    /\ config.Mrenclave = <<190, 239>>
    /\ TheOrigin.ClientState.Value = "v2"
    /\ TheResult.ClientState.Value.Mrenclave = <<190, 239>>

\* the service answered the UpdateClient call: it applied the header to its mirror client
Applied(c) == c.resp.ok

\* the headers the mirror client accepted in this batch, in order
AcceptedHeaders ==
    LET applied == SelectSeq(calls, Applied)
    IN  [i \in 1..Len(applied) |-> applied[i].req.Header.Value]

\* the headers for which the batch returned an update header, in order
DeliveredHeaders ==
    IF ret.res = Nil THEN <<>> ELSE [i \in 1..Len(TheResult) |-> headers[i]]

(* C16: when a SetupHeadersForUpdate batch returns, the headers the remote
   mirror client accepted in it are the headers for which an update header
   was returned; batch by batch, this is what keeps the two sequences equal
   over any sequence of invocations. *)
LockStep ==
    (op = "SetupHeadersForUpdate" /\ Returned) => AcceptedHeaders = DeliveredHeaders

(* C17: a Verify request is issued only through an established handle: the
   handle is set whenever the invocation issued one and ever after, and a
   query invoked while the handle is nil issues none. *)
VerifyThroughEstablishedHandle ==
    /\ \A i \in 1..Len(calls) : IsVerify(calls[i].req) => lcpServiceClient # Nil
    /\ verified => lcpServiceClient # Nil
    /\ (op \in QueryOps /\ lcpServiceClient = Nil) => calls = <<>>

VerifyBeforeEstablishmentWitness ==
    /\ op = "QueryClientStateWithProof"
    /\ codec # Nil
    /\ path # Nil
    /\ lcpServiceClient = Nil
    /\ OriginOk
    /\ pc = "crashed"
    /\ calls = <<>>

(* C18: an invocation of CreateMsgCreateClient that obtains the connection
   and the origin message issues exactly one CreateClient request, whatever
   it returns; when the service answers, exactly one client is created in
   that step, also when the invocation fails with the configuration
   mismatch, and the identifier received differs from every identifier the
   service handed out before. *)
CreateBeforeCompare ==
    /\ []((op = "CreateMsgCreateClient" /\ OriginOk) =>
            /\ Len(calls) = 1
            /\ calls[1].req = ElcMsgCreateClient(TheOrigin))
    /\ []((op = "CreateMsgCreateClient" /\ ret = Return(Nil, {"ErrConfigMismatch"})) =>
            /\ Len(calls) = 1
            /\ calls[1].resp.ok
            /\ \E k \in 1..Len(created) : created[k] = Msg(calls[1].resp).ClientId)
    /\ [][(op' = "CreateMsgCreateClient" /\ lcpServiceClient' # lcpServiceClient /\ OriginOk') =>
            IF calls'[1].resp.ok
              THEN LET id == Msg(calls'[1].resp).ClientId
                   IN  /\ created' = Append(created, id)
                       /\ \A k \in 1..Len(created) : created[k] # id
              ELSE created' = created]_vars

\* a second invocation on a session bound to the first identifier receives
\* the second one and fails
CreateBeforeCompareWitness ==
    /\ op = "CreateMsgCreateClient"
    /\ entry.lcpServiceClient # Nil
    /\ config.ElcClientId = "lcp-client-0"
    /\ created = <<"lcp-client-0", "lcp-client-1">>
    /\ Len(calls) = 1
    /\ calls[1].resp = RpcOk([ClientId |-> "lcp-client-1"])
    /\ ret = Return(Nil, {"ErrConfigMismatch"})

(* C19: when the origin prover's call of a delegated query, of
   CreateMsgCreateClient or of SetupHeadersForUpdate returns an error, the
   invocation returns that error with no result and has issued no
   CreateClient, UpdateClient or Verify request. *)
OriginFailurePrecedesDelegation ==
    (op \in PairOps /\ origin = {RpcErr}) =>
        /\ Returned
        /\ ret = Return(Nil, {"ErrOrigin"})
        /\ calls = <<>>
        /\ updates = <<>>

\* the origin error of a query comes back even when no handle was established
OriginFailureWitness ==
    /\ op = "QueryClientStateWithProof"
    /\ origin = {RpcErr}
    /\ lcpServiceClient = Nil
    /\ path # Nil
    /\ Returned
    /\ ret = Return(Nil, {"ErrOrigin"})

====
